---------------------------- MODULE Spec2Model ----------------------------
(***************************************************************************)
(* A model of the playground editor's own code and of the programs of the  *)
(* documentation pages it ships:                                           *)
(*                                                                         *)
(*   - the file explorer's reducer (file-explorer.tsx, lines 17-92),       *)
(*     specification SpecExplorer;                                         *)
(*   - the workspace handle (file-explorer.tsx, lines 94-224): its         *)
(*     terminals, their setup fibers and their wiring to the shells,       *)
(*     specification Spec; terminalSize, its debounce and the resize       *)
(*     consumers, specification SpecSize; the solved flag and its watcher, *)
(*     specification SpecSolved;                                           *)
(*   - the programs of the "Layer Memoization" page                        *)
(*     (400-dependency-memoization.mdx), specification SpecLayer.          *)
(*                                                                         *)
(* The parts are written over one set of variables. Each specification     *)
(* takes the actions of its part and leaves the other parts' variables at  *)
(* their initial values: the setup fibers and the shells, the debounce,    *)
(* the watcher and the explorer neither read nor write one another's       *)
(* state (terminals and time are common to Spec and SpecSize).             *)
(*                                                                         *)
(* The reactive atoms, the streams and the layer builder belong to the     *)
(* libraries the code calls. They are modelled by what the code relies on: *)
(* an atom drops a value equal to the one it holds; a stream of an atom    *)
(* delivers its changes in order; Rx.debounce publishes the latest value   *)
(* once no new value has come for its duration.                            *)
(***************************************************************************)
EXTENDS Integers, Sequences, FiniteSets, TLC

VARIABLES
    \* ---- file explorer ----
    state,          \* FileExplorer.State of useReducer(reducer, initialState)
    dispatched,     \* history: the actions dispatched so far, oldest first
    \* ---- workspace handle: prepare, terminalSize and its debounce ----
    prepare,        \* the prepare fiber: "running", "success" or "failure"
    size,           \* let size = 0
    sizeValue,      \* the value held by the Rx.writable atom
    sizeWrites,     \* history: per write, the value held before and the value set
    debValue,       \* Rx.debounce: the latest value seen, not yet published
    debounced,      \* the value held by the debounced atom
    timeout,        \* Rx.debounce: ms left on the pending timer, -1 when none
    sinceWrite,     \* history: ms since the last write to terminalSize
                    \* (capped at DebounceMs), -1 before the first write
    lastFireGap,    \* history: sinceWrite when the debounce timer last fired
    \* ---- workspace handle: one terminal per WorkspaceShell ----
    status,         \* "none", "open" (built, scope open) or "closed"
    logged,         \* the Effect.log messages of the terminal's build
    setup,          \* position of the forked setup fiber
    sleepLeft,      \* ms left of Effect.sleep(3000), -1 when not sleeping
    mounted,        \* whether the setup fiber has run the mount effect
    pipedTo,        \* shell -> the terminal its output is piped to, or NoTerminal
    onData,         \* terminal -> the shells whose input its data listener writes
    shellInput,     \* shell -> what was written to its input, in order
    emitted,        \* shell -> number of chunks emitted on its output
    outQueue,       \* shell -> chunks emitted and not yet read by the pipe
    termWritten,    \* terminal -> what was written to it, in order
    dataLog,        \* history: terminal -> its data events, in order, each
                    \* with whether the terminal had been mounted
    resizeQueue,    \* terminal -> values of get.stream(terminalSize) not yet consumed
    resized,        \* terminal -> number of invocations of its resize effect
    burstsSeen,     \* history: terminal -> bursts of writes it was open for
    prepareRuns,    \* history: how many times workspace.prepare was run
    sincePrepare,   \* history: ms since prepare terminated (-1: running), capped;
                    \* time that passes while no timer runs is not counted
    awaited,        \* history: env -> the exit prepare.await returned ("none": not yet)
    mountedAt,      \* history: env -> sincePrepare when mount ran (-1: not mounted)
    \* ---- workspace handle: the solved flag and its watcher ----
    solved,         \* the value of the solved atom
    solvedSets,     \* history: the number of times solved was set
    changes,        \* history: the values solved changed to, oldest first
    solvedQueue,    \* values of get.stream(solved) not yet taken by the watcher
    solve,          \* the value the watcher is handling
    fileIndex,      \* the next entry of workspace.filePaths to write, 0 when idle
    files,          \* the container's files: path -> content
    writeLog,       \* history: the watcher's handle.write(path, content) calls
    \* ---- the programs of the Layer Memoization page ----
    runnable,       \* the program that is run, with how it provides layer a
    initialized,    \* the number of "initialized" logs: constructions of layer a
    memoMap,        \* the memo map of the provision under way: its entry for a
    memoized,       \* the result kept by Layer.memoize(a)
    layerPc,        \* consumer layer (b, c) -> position of the fiber building it
    instanceOf,     \* consumer layer -> the instance of A it was built with
    mainPc,         \* position of the main fiber
    provisions,     \* the number of local provisions started
    provided,       \* history: the instance of A each local provision gave
    \* ---- the programs of the Basic Concurrency page ----
    concurrent,     \* the program that is run: an interruption or a race
    callerPc,       \* position of the fiber that runs the program
    fiberStatus,    \* the forked fiber: "none", "running", "finalizing", "done"
    finalizersLeft, \* the finalizers the interrupted fiber has still to run
    said,           \* the number of rounds of the forked fiber's loop
    clock,          \* seconds since the race started
    taskState,      \* task -> "none", "running", "succeeded", "failed", "interrupted"
    raceResult      \* the result of the race, once it has one

varsExplorer == <<state, dispatched>>

varsSize ==
    <<size, sizeValue, sizeWrites, debValue, debounced, timeout, sinceWrite,
      lastFireGap>>

varsIO ==
    <<pipedTo, onData, shellInput, emitted, outQueue, termWritten, dataLog,
      mounted>>

varsTerminal ==
    <<status, logged, setup, sleepLeft, resizeQueue, resized, burstsSeen>>

varsPrepare == <<prepareRuns, sincePrepare, awaited, mountedAt>>

varsWorkspace == <<prepare, varsSize, varsIO, varsTerminal, varsPrepare>>

varsSolved ==
    <<solved, solvedSets, changes, solvedQueue, solve, fileIndex, files,
      writeLog>>

varsLayer ==
    <<runnable, initialized, memoMap, memoized, layerPc, instanceOf, mainPc,
      provisions, provided>>

varsFiber ==
    <<concurrent, callerPc, fiberStatus, finalizersLeft, said, clock,
      taskState, raceResult>>

vars == <<varsExplorer, varsWorkspace, varsSolved, varsLayer, varsFiber>>

(***************************************************************************)
(* Bounds of the model.                                                    *)
(***************************************************************************)
\* The number of actions dispatched to the file explorer in one behaviour.
MaxActions == 3

\* The number of writes to terminalSize in one behaviour.
MaxWrites == 3

\* The chunks a shell emits, and the data events a terminal fires.
MaxChunks == 2

\* The number of times the solved flag is set in one behaviour.
MaxSolvedSets == 5

\* The number of times a program provides layer a locally, in sequence.
MaxProvides == 3

\* The finalizers of the forked fiber, and the rounds of its loop.
MaxFinalizers == 2

(***************************************************************************)
(* File explorer: FileExplorer.State, Action, CreationMode and the reducer *)
(***************************************************************************)
\* The paths a ShowInput may carry (any string in the code).
Paths == {"", "src", "src/lib"}

InputType == {"file", "directory"}

\* Data.taggedEnum<FileExplorer.CreationMode>() constructors
Idle == [_tag |-> "Idle"]

CreatingFile(p) == [_tag |-> "CreatingFile", path |-> p]

CreatingDirectory(p) == [_tag |-> "CreatingDirectory", path |-> p]

CreationMode ==
    {Idle} \cup {CreatingFile(p) : p \in Paths}
           \cup {CreatingDirectory(p) : p \in Paths}

\* Data.taggedEnum<FileExplorer.Action>() constructors
ShowInput(t, p) == [_tag |-> "ShowInput", type |-> t, path |-> p]

HideInput == [_tag |-> "HideInput"]

Action == {ShowInput(t, p) : t \in InputType, p \in Paths} \cup {HideInput}

\* Plausible slips of the reducer, used to test the properties below.
reducerSwapped(s, action) ==
    IF action._tag = "ShowInput"
    THEN [s EXCEPT !.creationMode =
            IF action.type = "file"
            THEN CreatingDirectory(action.path)
            ELSE CreatingFile(action.path)]
    ELSE [s EXCEPT !.creationMode = Idle]

reducerHideKeeps(s, action) ==
    IF action._tag = "ShowInput"
    THEN [s EXCEPT !.creationMode =
            IF action.type = "file"
            THEN CreatingFile(action.path)
            ELSE CreatingDirectory(action.path)]
    ELSE s

reducerShowIgnoredWhenBusy(s, action) ==
    IF action._tag = "ShowInput"
    THEN IF s.creationMode = Idle
         THEN [s EXCEPT !.creationMode =
                 IF action.type = "file"
                 THEN CreatingFile(action.path)
                 ELSE CreatingDirectory(action.path)]
         ELSE s
    ELSE [s EXCEPT !.creationMode = Idle]

reducerShowKeepsPath(s, action) ==
    IF action._tag = "ShowInput"
    THEN [s EXCEPT !.creationMode =
            LET p == IF s.creationMode = Idle
                     THEN action.path
                     ELSE s.creationMode.path
            IN IF action.type = "file"
               THEN CreatingFile(p)
               ELSE CreatingDirectory(p)]
    ELSE [s EXCEPT !.creationMode = Idle]

\* function reducer(state, action): switch (action._tag)
reducer(s, action) ==
    IF action._tag = "ShowInput"
    THEN [s EXCEPT !.creationMode =
            IF action.type = "file"
            THEN CreatingFile(action.path)
            ELSE CreatingDirectory(action.path)]
    ELSE [s EXCEPT !.creationMode = Idle]

initialState == [creationMode |-> Idle]

StartExplorer ==
    /\ state = initialState
    /\ dispatched = <<>>

\* dispatch(Action.ShowInput({ type, path }))
DispatchShowInput(t, p) ==
    /\ Len(dispatched) < MaxActions
    /\ state' = reducer(state, ShowInput(t, p))
    /\ dispatched' = Append(dispatched, ShowInput(t, p))
    /\ UNCHANGED <<varsWorkspace, varsSolved, varsLayer, varsFiber>>

\* dispatch(Action.HideInput())
DispatchHideInput ==
    /\ Len(dispatched) < MaxActions
    /\ state' = reducer(state, HideInput)
    /\ dispatched' = Append(dispatched, HideInput)
    /\ UNCHANGED <<varsWorkspace, varsSolved, varsLayer, varsFiber>>

(***************************************************************************)
(* Workspace handle (workspaceHandleRx): the prepare fiber, the terminal   *)
(* family, the wiring of each terminal to its shell, and terminalSize.     *)
(* The state after the handle is built: prepare forked and running, size   *)
(* 0, no terminal.                                                         *)
(***************************************************************************)
\* Rx.debounce(250)
DebounceMs == 250

\* Effect.sleep(3000)
SleepMs == 3000

\* The steps by which the model lets time pass; every timer is a multiple.
\* The fine steps are taken while the debounce is running.
TickSteps == {125, 250, 1000}

Undefined == "<undefined>"

\* The WorkspaceShell values a terminal is built for: a plain shell, and a
\* shell with a command.
Envs == {"shell", "server"}

command(e) == IF e = "server" THEN "npm run dev" ELSE Undefined

\* A slip of the test of the command, used to test the properties below.
TruthyAlways(c) == TRUE

\* if (env.command): undefined and "" are falsy
Truthy(c) == c # Undefined /\ c # ""

NoTerminal == "<none>"

\* What is written to a terminal or to a shell's input: <<kind, owner, k>>.
Loading(e) == <<"Loading workspace...\n", e, 0>>

CdLine(e) == <<"cd && clear\n", e, 0>>

CommandLine(e) == <<"command\n", e, 0>>

OutChunk(s, k) == <<"out", s, k>>

DataEvent(e, k) == <<"data", e, k>>

StartWorkspace ==
    /\ prepare = "running"
    /\ size = 0
    /\ sizeValue = 0
    /\ sizeWrites = <<>>
    /\ debValue = 0
    /\ debounced = 0
    /\ timeout = -1
    /\ sinceWrite = -1
    /\ lastFireGap = -1
    /\ status = [e \in Envs |-> "none"]
    /\ logged = [e \in Envs |-> <<>>]
    /\ setup = [e \in Envs |-> "none"]
    /\ sleepLeft = [e \in Envs |-> -1]
    /\ mounted = [e \in Envs |-> FALSE]
    /\ pipedTo = [e \in Envs |-> NoTerminal]
    /\ onData = [e \in Envs |-> {}]
    /\ shellInput = [e \in Envs |-> <<>>]
    /\ emitted = [e \in Envs |-> 0]
    /\ outQueue = [e \in Envs |-> <<>>]
    /\ termWritten = [e \in Envs |-> <<>>]
    /\ dataLog = [e \in Envs |-> <<>>]
    /\ resizeQueue = [e \in Envs |-> <<>>]
    /\ resized = [e \in Envs |-> 0]
    /\ burstsSeen = [e \in Envs |-> 0]
    /\ prepareRuns = 1
    /\ sincePrepare = -1
    /\ awaited = [e \in Envs |-> "none"]
    /\ mountedAt = [e \in Envs |-> -1]

\* handle.run(workspace.prepare) terminates: with success, with failure, or
\* interrupted.
PrepareExit(outcome) ==
    /\ prepare = "running"
    /\ prepare' = outcome
    /\ sincePrepare' = 0
    /\ UNCHANGED <<varsFiber, varsExplorer, varsSolved, varsLayer, varsSize,
                   varsIO, varsTerminal, prepareRuns, awaited, mountedAt>>

\* A burst of writes is going on (the last write is less than DebounceMs
\* old) or its debounced value is still to be published.
BurstPending ==
    \/ sinceWrite >= 0 /\ sinceWrite < DebounceMs
    \/ timeout >= 0

\* A slip of the build, used to test the properties below: every terminal
\* runs workspace.prepare for itself.
BuildTerminalRunsPrepare(e) ==
    /\ status[e] = "none"
    /\ status' = [status EXCEPT ![e] = "open"]
    /\ logged' = [logged EXCEPT ![e] = <<"building">>]
    /\ termWritten' = [termWritten EXCEPT ![e] = Append(@, Loading(e))]
    /\ setup' = [setup EXCEPT ![e] = "cd"]
    /\ resizeQueue' = [resizeQueue EXCEPT ![e] = <<debounced>>]
    /\ burstsSeen' = [burstsSeen EXCEPT ![e] = IF BurstPending THEN 1 ELSE 0]
    /\ prepareRuns' = prepareRuns + 1
    /\ prepare' = "running"
    /\ UNCHANGED <<varsFiber, varsExplorer, varsSolved, varsLayer, sincePrepare,
                   awaited, mountedAt, varsSize, sleepLeft, resized, pipedTo,
                   onData, shellInput, emitted, outQueue, dataLog, mounted>>

\* Another slip: the build itself waits for prepare.
BuildTerminalAwaitsPrepare(e) ==
    /\ status[e] = "none"
    /\ prepare # "running"
    /\ status' = [status EXCEPT ![e] = "open"]
    /\ logged' = [logged EXCEPT ![e] = <<"building">>]
    /\ termWritten' = [termWritten EXCEPT ![e] = Append(@, Loading(e))]
    /\ setup' = [setup EXCEPT ![e] = "cd"]
    /\ resizeQueue' = [resizeQueue EXCEPT ![e] = <<debounced>>]
    /\ burstsSeen' = [burstsSeen EXCEPT ![e] = IF BurstPending THEN 1 ELSE 0]
    /\ UNCHANGED <<varsFiber, varsExplorer, varsSolved, varsLayer, varsPrepare, prepare, varsSize, sleepLeft, resized,
                   pipedTo, onData, shellInput, emitted, outQueue, dataLog,
                   mounted>>

\* Rx.make((get) => Effect.gen(...)): the build of the terminal for env e,
\* up to "return terminal". It logs, takes a shell, spawns the terminal,
\* writes the loading line, forks the setup fiber and forks the consumer of
\* get.stream(terminalSize), which starts with the atom's current value.
BuildTerminal(e) ==
    /\ status[e] = "none"
    /\ status' = [status EXCEPT ![e] = "open"]
    /\ logged' = [logged EXCEPT ![e] = <<"building">>]
    /\ termWritten' = [termWritten EXCEPT ![e] = Append(@, Loading(e))]
    /\ setup' = [setup EXCEPT ![e] = "cd"]
    /\ resizeQueue' = [resizeQueue EXCEPT ![e] = <<debounced>>]
    /\ burstsSeen' = [burstsSeen EXCEPT ![e] = IF BurstPending THEN 1 ELSE 0]
    /\ UNCHANGED <<varsFiber, varsExplorer, varsSolved, varsLayer, varsPrepare, prepare, varsSize, sleepLeft, resized,
                   pipedTo, onData, shellInput, emitted, outQueue, dataLog,
                   mounted>>

\* Slips of the mount effect, used to test the properties below.
mountNoListener(e) ==
    /\ pipedTo' = [pipedTo EXCEPT ![e] = e]
    /\ onData' = onData

\* const mount = Effect.sync(...): pipe the shell's output to the terminal
\* and register the data listener that writes to the shell's input.
mount(e) ==
    /\ pipedTo' = [pipedTo EXCEPT ![e] = e]
    /\ onData' = [onData EXCEPT ![e] = @ \cup {e}]

\* The setup fiber's first step: input.write(`cd "${workspace.name}" && clear\n`)
SetupCd(e) ==
    /\ setup[e] = "cd"
    /\ shellInput' = [shellInput EXCEPT ![e] = Append(@, CdLine(e))]
    /\ setup' = [setup EXCEPT ![e] = "await"]
    /\ UNCHANGED <<varsFiber, varsExplorer, varsSolved, varsLayer, varsPrepare, prepare, varsSize, status, logged, sleepLeft,
                   resizeQueue, resized, burstsSeen, pipedTo, onData,
                   emitted, outQueue, termWritten, dataLog, mounted>>

\* Slips of the await, used to test the properties below: one that does
\* not wait, and a join, which fails with the fiber's failure.
awaitReturnsAtOnce(exit) == TRUE

awaitJoins(exit) == exit = "success"

\* prepare.await: resumes with the fiber's Exit once the fiber has
\* terminated, whatever the exit is.
awaitReturns(exit) == exit # "running"

\* yield* prepare.await returns; with a command the fiber starts to sleep,
\* without one it mounts and is done.
SetupAwaited(e) ==
    /\ setup[e] = "await"
    /\ awaitReturns(prepare)
    /\ awaited' = [awaited EXCEPT ![e] = prepare]
    /\ IF Truthy(command(e))
       THEN /\ setup' = [setup EXCEPT ![e] = "sleep"]
            /\ sleepLeft' = [sleepLeft EXCEPT ![e] = SleepMs]
            /\ UNCHANGED <<pipedTo, onData, mounted, mountedAt>>
       ELSE /\ mount(e)
            /\ mounted' = [mounted EXCEPT ![e] = TRUE]
            /\ mountedAt' = [mountedAt EXCEPT ![e] = sincePrepare]
            /\ setup' = [setup EXCEPT ![e] = "done"]
            /\ UNCHANGED sleepLeft
    /\ UNCHANGED <<varsFiber, varsExplorer, varsSolved, varsLayer, prepareRuns, sincePrepare, prepare, varsSize, status, logged,
                   resizeQueue, resized, burstsSeen, shellInput,
                   emitted, outQueue, termWritten, dataLog>>

\* Effect.sleep(3000) is over: mount, then input.write(`${env.command}\n`)
SetupWake(e) ==
    /\ setup[e] = "sleep"
    /\ sleepLeft[e] = 0
    /\ mount(e)
    /\ mounted' = [mounted EXCEPT ![e] = TRUE]
    /\ mountedAt' = [mountedAt EXCEPT ![e] = sincePrepare]
    /\ shellInput' = [shellInput EXCEPT ![e] = Append(@, CommandLine(e))]
    /\ setup' = [setup EXCEPT ![e] = "done"]
    /\ sleepLeft' = [sleepLeft EXCEPT ![e] = -1]
    /\ UNCHANGED <<varsFiber, varsExplorer, varsSolved, varsLayer, prepareRuns, sincePrepare, awaited, prepare, varsSize, status, logged,
                   resizeQueue, resized, burstsSeen, emitted,
                   outQueue, termWritten, dataLog>>

\* The shell of terminal s emits a chunk on shell.output; the stream keeps
\* it until it is read.
ShellEmit(s) ==
    /\ status[s] # "none"
    /\ emitted[s] < MaxChunks
    /\ emitted' = [emitted EXCEPT ![s] = @ + 1]
    /\ outQueue' = [outQueue EXCEPT ![s] = Append(@, OutChunk(s, emitted[s] + 1))]
    /\ UNCHANGED <<varsFiber, varsExplorer, varsSolved, varsLayer, varsPrepare, prepare, varsSize, varsTerminal, pipedTo,
                   onData, shellInput, termWritten, dataLog, mounted>>

\* shell.output.pipeTo(new WritableStream({ write(data) { terminal.write(data) } }))
\* moves the oldest chunk of the shell's output to the terminal.
PipeWrite(s) ==
    /\ pipedTo[s] # NoTerminal
    /\ outQueue[s] # <<>>
    /\ termWritten' = [termWritten EXCEPT ![pipedTo[s]] = Append(@, Head(outQueue[s]))]
    /\ outQueue' = [outQueue EXCEPT ![s] = Tail(@)]
    /\ UNCHANGED <<varsFiber, varsExplorer, varsSolved, varsLayer, varsPrepare, prepare, varsSize, varsTerminal, pipedTo,
                   onData, shellInput, emitted, dataLog, mounted>>

\* The terminal fires a data event (the user types): every registered
\* listener runs input.write(data).
TerminalData(e) ==
    /\ status[e] = "open"
    /\ Len(dataLog[e]) < MaxChunks
    /\ LET d == DataEvent(e, Len(dataLog[e]) + 1) IN
       /\ dataLog' = [dataLog EXCEPT ![e] =
                         Append(@, [data |-> d, mounted |-> mounted[e]])]
       /\ shellInput' = [s \in Envs |->
                            IF s \in onData[e]
                            THEN Append(shellInput[s], d)
                            ELSE shellInput[s]]
    /\ UNCHANGED <<varsFiber, varsExplorer, varsSolved, varsLayer, varsPrepare, prepare, varsSize, varsTerminal, pipedTo,
                   onData, emitted, outQueue, termWritten, mounted>>

\* size++ : the value of the expression is the value before the increment.
postIncrement(n) == n

\* A write to terminalSize: ctx.setSelf(size++). The atom drops a value
\* equal to the one it holds; a new value reaches Rx.debounce, which keeps
\* it and (re)starts its timer.
WriteTerminalSize ==
    /\ size < MaxWrites
    /\ size' = size + 1
    /\ sizeWrites' = Append(sizeWrites, [held |-> sizeValue,
                                         set |-> postIncrement(size)])
    /\ IF postIncrement(size) # sizeValue
       THEN /\ sizeValue' = postIncrement(size)
            /\ debValue' = postIncrement(size)
            /\ timeout' = DebounceMs
       ELSE UNCHANGED <<sizeValue, debValue, timeout>>
    /\ sinceWrite' = 0
    /\ burstsSeen' = [e \in Envs |->
                         IF status[e] = "open" /\ ~BurstPending
                         THEN burstsSeen[e] + 1
                         ELSE burstsSeen[e]]
    /\ UNCHANGED <<varsFiber, varsExplorer, varsSolved, varsLayer, varsPrepare, prepare, debounced, lastFireGap, varsIO,
                   status, logged, setup, sleepLeft, resizeQueue, resized>>

\* The debounce timer fires: the debounced atom takes the latest value and,
\* when that changes it, every open terminal's stream receives it.
DebounceFire ==
    /\ timeout = 0
    /\ timeout' = -1
    /\ lastFireGap' = sinceWrite
    /\ debounced' = debValue
    /\ resizeQueue' = [e \in Envs |->
                          IF status[e] = "open" /\ debValue # debounced
                          THEN Append(resizeQueue[e], debValue)
                          ELSE resizeQueue[e]]
    /\ UNCHANGED <<varsFiber, varsExplorer, varsSolved, varsLayer, varsPrepare, prepare, size, sizeValue, sizeWrites, debValue,
                   sinceWrite, varsIO, status, logged, setup, sleepLeft,
                   resized, burstsSeen>>

\* Stream.runForEach(() => resize): one value consumed, one resize.
Resize(e) ==
    /\ resizeQueue[e] # <<>>
    /\ resizeQueue' = [resizeQueue EXCEPT ![e] = Tail(@)]
    /\ resized' = [resized EXCEPT ![e] = @ + 1]
    /\ UNCHANGED <<varsFiber, varsExplorer, varsSolved, varsLayer, varsPrepare, prepare, varsSize, varsIO, status, logged,
                   setup, sleepLeft, burstsSeen>>

\* A slip of the close, used to test the properties below: the finalizer
\* runs, the forked fibers go on.
CloseTerminalKeepsFibers(e) ==
    /\ status[e] = "open"
    /\ status' = [status EXCEPT ![e] = "closed"]
    /\ logged' = [logged EXCEPT ![e] = Append(@, "releasing")]
    /\ UNCHANGED <<varsFiber, varsExplorer, varsSolved, varsLayer, varsPrepare,
                   prepare, varsSize, varsIO, resized, burstsSeen, setup,
                   sleepLeft, resizeQueue>>

\* The terminal's scope is closed: the forked fibers are interrupted and the
\* finalizer logs "releasing".
CloseTerminal(e) ==
    /\ status[e] = "open"
    /\ status' = [status EXCEPT ![e] = "closed"]
    /\ logged' = [logged EXCEPT ![e] = Append(@, "releasing")]
    /\ setup' = [setup EXCEPT ![e] = IF @ = "done" THEN "done" ELSE "interrupted"]
    /\ sleepLeft' = [sleepLeft EXCEPT ![e] = -1]
    /\ resizeQueue' = [resizeQueue EXCEPT ![e] = <<>>]
    /\ UNCHANGED <<varsFiber, varsExplorer, varsSolved, varsLayer, varsPrepare, prepare, varsSize, varsIO, resized, burstsSeen>>

\* d ms pass. Time does not pass a timer that is due.
Tick(d) ==
    /\ timeout > 0 \/ (\E e \in Envs : sleepLeft[e] > 0)
                   \/ (sinceWrite >= 0 /\ sinceWrite < DebounceMs)
    /\ d < 1000 => timeout > 0 \/ (sinceWrite >= 0 /\ sinceWrite < DebounceMs)
    /\ timeout = -1 \/ timeout >= d
    /\ \A e \in Envs : sleepLeft[e] = -1 \/ sleepLeft[e] >= d
    /\ timeout' = IF timeout = -1 THEN -1 ELSE timeout - d
    /\ sleepLeft' = [e \in Envs |->
                        IF sleepLeft[e] = -1 THEN -1 ELSE sleepLeft[e] - d]
    /\ sinceWrite' = IF sinceWrite = -1 THEN -1
                     ELSE IF sinceWrite + d >= DebounceMs THEN DebounceMs
                     ELSE sinceWrite + d
    /\ sincePrepare' = IF sincePrepare = -1 THEN -1
                       ELSE IF sincePrepare + d >= SleepMs THEN SleepMs
                       ELSE sincePrepare + d
    /\ UNCHANGED <<varsFiber, varsExplorer, varsSolved, varsLayer, prepareRuns, awaited, mountedAt, prepare, size, sizeValue, sizeWrites, debValue, debounced,
                   lastFireGap, varsIO, status, logged, setup, resizeQueue,
                   resized, burstsSeen>>

(***************************************************************************)
(* Workspace handle: the solved flag and the fiber that rewrites the       *)
(* workspace's files when it changes.                                      *)
(***************************************************************************)
\* workspace.filePaths: [file, path] pairs. One file has a solution, one
\* has none, one has the empty string as its solution.
filePaths ==
    << <<[initialContent |-> "initial 1", solution |-> "solution 1"], "src/index.ts">>,
       <<[initialContent |-> "initial 2", solution |-> Undefined], "README.md">>,
       <<[initialContent |-> "initial 3", solution |-> ""], "src/empty.ts">> >>

workspacePaths == {filePaths[i][2] : i \in 1..Len(filePaths)}

\* Slips of the content selection, used to test the properties below.
contentOrEmpty(solveFlag, file) ==
    IF solveFlag
    THEN IF file.solution # Undefined /\ file.solution # ""
         THEN file.solution
         ELSE file.initialContent
    ELSE file.initialContent

\* solve ? file.solution ?? file.initialContent : file.initialContent
content(solveFlag, file) ==
    IF solveFlag
    THEN IF file.solution # Undefined
         THEN file.solution
         ELSE file.initialContent
    ELSE file.initialContent

\* A slip of the stream, used to test the properties below: the atom's
\* current value is emitted first, as without the option.
streamStartsWithValue(withoutInitialValue, value) == <<value>>

\* get.stream(rx, { withoutInitialValue }): what the stream holds when it
\* is taken: the atom's current value, unless the option is set.
streamStart(withoutInitialValue, value) ==
    IF withoutInitialValue THEN <<>> ELSE <<value>>

\* After the build: solved is false, the watcher is forked and waits; the
\* stream is taken withoutInitialValue, so nothing is queued.
StartSolved ==
    /\ solved = FALSE
    /\ solvedSets = 0
    /\ changes = <<>>
    /\ solvedQueue = streamStart(TRUE, FALSE)
    /\ solve = FALSE
    /\ fileIndex = 0
    /\ files = [p \in workspacePaths |->
                  LET i == CHOOSE i \in 1..Len(filePaths) : filePaths[i][2] = p
                  IN filePaths[i][1].initialContent]
    /\ writeLog = <<>>

\* The solved atom is set to v. The atom drops a value equal to the one it
\* holds; a new value is published to the watcher's stream.
SetSolved(v) ==
    /\ solvedSets < MaxSolvedSets
    /\ solvedSets' = solvedSets + 1
    /\ solved' = v
    /\ IF v # solved
       THEN /\ solvedQueue' = Append(solvedQueue, v)
            /\ changes' = Append(changes, v)
       ELSE UNCHANGED <<solvedQueue, changes>>
    /\ UNCHANGED <<varsFiber, varsExplorer, varsWorkspace, varsLayer, solve, fileIndex, files,
                   writeLog>>

\* Stream.runForEach((solve) => ...): the watcher takes the next value.
WatcherTake ==
    /\ fileIndex = 0
    /\ solvedQueue # <<>>
    /\ solve' = Head(solvedQueue)
    /\ solvedQueue' = Tail(solvedQueue)
    /\ fileIndex' = 1
    /\ UNCHANGED <<varsFiber, varsExplorer, varsWorkspace, varsLayer, solved, solvedSets, changes,
                   files, writeLog>>

\* A slip of the watcher, used to test the properties below: the write
\* reads the atom, not the value the stream handed over.
WatcherWriteReadsAtom ==
    /\ fileIndex > 0
    /\ LET file == filePaths[fileIndex][1]
           path == filePaths[fileIndex][2]
       IN /\ files' = [files EXCEPT ![path] = content(solved, file)]
          /\ writeLog' = Append(writeLog, <<path, content(solved, file)>>)
    /\ fileIndex' = IF fileIndex = Len(filePaths) THEN 0 ELSE fileIndex + 1
    /\ UNCHANGED <<varsFiber, varsExplorer, varsWorkspace, varsLayer, solved, solvedSets, changes,
                   solvedQueue, solve>>

\* Effect.forEach(workspace.filePaths, ([file, path]) => handle.write(path, ...)):
\* one handle.write, for the next pair.
WatcherWrite ==
    /\ fileIndex > 0
    /\ LET file == filePaths[fileIndex][1]
           path == filePaths[fileIndex][2]
       IN /\ files' = [files EXCEPT ![path] = content(solve, file)]
          /\ writeLog' = Append(writeLog, <<path, content(solve, file)>>)
    /\ fileIndex' = IF fileIndex = Len(filePaths) THEN 0 ELSE fileIndex + 1
    /\ UNCHANGED <<varsFiber, varsExplorer, varsWorkspace, varsLayer, solved, solvedSets, changes,
                   solvedQueue, solve>>

(***************************************************************************)
(* The programs of the "Layer Memoization" page. Layer a constructs        *)
(* service A and logs "initialized"; layers b and c each need A.           *)
(*   global:  Effect.provide(program, Layer.merge(Layer.provide(b, x),     *)
(*            Layer.provide(c, y))), x and y each a or Layer.fresh(a)      *)
(*   local:   yield* Effect.provide(A, a), n times in sequence             *)
(*   memoize: Effect.scoped(Layer.memoize(a).pipe(Effect.andThen(          *)
(*            (memoized) => ...))), providing memoized n times in sequence *)
(***************************************************************************)
Consumers == {"b", "c"}

Absent == [state |-> "absent", instance |-> 0]

Building == [state |-> "building", instance |-> 0]

Done(i) == [state |-> "done", instance |-> i]

Runnables ==
    {[kind |-> "global", uses |-> u, times |-> 1] :
        u \in [Consumers -> {"a", "fresh(a)"}]}
    \cup {[kind |-> k, uses |-> [l \in Consumers |-> "a"], times |-> n] :
            k \in {"local", "memoize"}, n \in 1..MaxProvides}

StartLayer ==
    /\ runnable \in Runnables
    /\ initialized = 0
    /\ memoMap = Absent
    /\ memoized = Absent
    /\ layerPc = [l \in Consumers |-> "start"]
    /\ instanceOf = [l \in Consumers |-> 0]
    /\ mainPc = "start"
    /\ provisions = 0
    /\ provided = <<>>

\* Slips of the layer builder, used to test the properties below.
sharedNever(use) == FALSE

sharedAlways(use) == TRUE

\* A layer is built through the memo map of the provision ("layers are
\* shared by default") unless it is wrapped in Layer.fresh.
shared(use) == use # "fresh(a)"

newMemoMapKept(current) == current

\* Each Effect.provide builds its layer with a memo map of its own.
newMemoMap(current) == Absent

memoizedForgotten(i) == Absent

\* Layer.memoize keeps the result of the first construction.
memoizedResult(i) == Done(i)

\* Effect.provide(program, Layer.merge(...)): the main fiber starts the
\* build of the merged layer, one fiber per side.
ProvideGlobally ==
    /\ runnable.kind = "global"
    /\ mainPc = "start"
    /\ mainPc' = "building"
    /\ memoMap' = newMemoMap(memoMap)
    /\ layerPc' = [l \in Consumers |-> "requires"]
    /\ UNCHANGED <<varsFiber, varsExplorer, varsWorkspace, varsSolved, runnable,
                   initialized, memoized, instanceOf, provisions, provided>>

\* Layer.provide(l, x): the build of l asks for x. A shared layer is looked
\* up in the memo map: the first to ask constructs it, the others wait for
\* that construction or take its result. A fresh layer is constructed anew.
Require(l) ==
    /\ layerPc[l] = "requires"
    /\ IF shared(runnable.uses[l])
       THEN CASE memoMap.state = "absent" ->
                    /\ memoMap' = Building
                    /\ layerPc' = [layerPc EXCEPT ![l] = "constructs"]
                    /\ UNCHANGED instanceOf
              [] memoMap.state = "building" ->
                    /\ layerPc' = [layerPc EXCEPT ![l] = "waits"]
                    /\ UNCHANGED <<memoMap, instanceOf>>
              [] memoMap.state = "done" ->
                    /\ instanceOf' = [instanceOf EXCEPT ![l] = memoMap.instance]
                    /\ layerPc' = [layerPc EXCEPT ![l] = "ready"]
                    /\ UNCHANGED memoMap
       ELSE /\ layerPc' = [layerPc EXCEPT ![l] = "constructs"]
            /\ UNCHANGED <<memoMap, instanceOf>>
    /\ UNCHANGED <<varsFiber, varsExplorer, varsWorkspace, varsSolved, runnable,
                   initialized, memoized, mainPc, provisions, provided>>

\* Layer a's effect runs for l: Effect.succeed({ a: 5 }) and the log.
Construct(l) ==
    /\ layerPc[l] = "constructs"
    /\ initialized' = initialized + 1
    /\ instanceOf' = [instanceOf EXCEPT ![l] = initialized + 1]
    /\ memoMap' = IF shared(runnable.uses[l]) THEN Done(initialized + 1)
                  ELSE memoMap
    /\ layerPc' = [layerPc EXCEPT ![l] = "ready"]
    /\ UNCHANGED <<varsFiber, varsExplorer, varsWorkspace, varsSolved, runnable,
                   memoized, mainPc, provisions, provided>>

\* The construction l waited for is finished.
Awaited(l) ==
    /\ layerPc[l] = "waits"
    /\ memoMap.state = "done"
    /\ instanceOf' = [instanceOf EXCEPT ![l] = memoMap.instance]
    /\ layerPc' = [layerPc EXCEPT ![l] = "ready"]
    /\ UNCHANGED <<varsFiber, varsExplorer, varsWorkspace, varsSolved, runnable,
                   initialized, memoMap, memoized, mainPc, provisions,
                   provided>>

\* The consumer's own effect runs: const { a } = yield* A
BuildConsumer(l) ==
    /\ layerPc[l] = "ready"
    /\ layerPc' = [layerPc EXCEPT ![l] = "built"]
    /\ UNCHANGED <<varsFiber, varsExplorer, varsWorkspace, varsSolved, runnable,
                   initialized, memoMap, memoized, instanceOf, mainPc,
                   provisions, provided>>

\* Both sides are built: program runs (yield* B; yield* C).
RunProgram ==
    /\ mainPc = "building"
    /\ \A l \in Consumers : layerPc[l] = "built"
    /\ mainPc' = "done"
    /\ UNCHANGED <<varsFiber, varsExplorer, varsWorkspace, varsSolved, runnable,
                   initialized, memoMap, memoized, layerPc, instanceOf,
                   provisions, provided>>

\* Layer.memoize(a): returns the memoized layer; nothing is constructed.
Memoize ==
    /\ runnable.kind = "memoize"
    /\ mainPc = "start"
    /\ mainPc' = "next"
    /\ UNCHANGED <<varsFiber, varsExplorer, varsWorkspace, varsSolved, runnable,
                   initialized, memoMap, memoized, layerPc, instanceOf,
                   provisions, provided>>

\* yield* Effect.provide(A, layer): the next local provision starts, with a
\* memo map of its own. The memoized layer gives the kept result when there
\* is one; otherwise layer a is to be constructed.
ProvideLocally ==
    /\ \/ runnable.kind = "local" /\ mainPc \in {"start", "next"}
       \/ runnable.kind = "memoize" /\ mainPc = "next"
    /\ provisions < runnable.times
    /\ provisions' = provisions + 1
    /\ memoMap' = newMemoMap(memoMap)
    /\ IF runnable.kind = "memoize" /\ memoized.state = "done"
       THEN /\ provided' = Append(provided, memoized.instance)
            /\ mainPc' = "uses"
       ELSE IF runnable.kind = "local" /\ memoMap'.state = "done"
       THEN /\ provided' = Append(provided, memoMap'.instance)
            /\ mainPc' = "uses"
       ELSE /\ mainPc' = "constructs"
            /\ UNCHANGED provided
    /\ UNCHANGED <<varsFiber, varsExplorer, varsWorkspace, varsSolved, runnable,
                   initialized, memoized, layerPc, instanceOf>>

\* Layer a's effect runs for the local provision under way.
ConstructLocally ==
    /\ mainPc = "constructs"
    /\ initialized' = initialized + 1
    /\ provided' = Append(provided, initialized + 1)
    /\ memoMap' = Done(initialized + 1)
    /\ memoized' = IF runnable.kind = "memoize"
                   THEN memoizedResult(initialized + 1)
                   ELSE memoized
    /\ mainPc' = "uses"
    /\ UNCHANGED <<varsFiber, varsExplorer, varsWorkspace, varsSolved, runnable,
                   layerPc, instanceOf, provisions>>

\* The provided effect (A) runs; the program goes on to its next provision
\* or ends.
UseLocally ==
    /\ mainPc = "uses"
    /\ mainPc' = IF provisions = runnable.times THEN "done" ELSE "next"
    /\ UNCHANGED <<varsFiber, varsExplorer, varsWorkspace, varsSolved, runnable,
                   initialized, memoMap, memoized, layerPc, instanceOf,
                   provisions, provided>>

(***************************************************************************)
(* The programs of the "Basic Concurrency" page.                           *)
(*   interruption: const fiber = yield* Effect.fork(Effect.forever(...))   *)
(*                 const exit = yield* Fiber.interrupt(fiber)              *)
(*                 console.log(exit)                                       *)
(*     or, without back-pressure, yield* Fiber.interruptFork(fiber)        *)
(*   race:         Effect.race(task1, task2), each task an                 *)
(*                 Effect.delay of Effect.succeed or Effect.fail, and      *)
(*                 Effect.race(Effect.either(task1), Effect.either(task2)) *)
(***************************************************************************)
Tasks == {1, 2}

\* "1 second", "2 seconds"
Delays == {1, 2}

Concurrents ==
    {[kind |-> "interruption", with |-> w, finalizers |-> n,
      delay |-> [t \in Tasks |-> 1], succeeds |-> [t \in Tasks |-> TRUE],
      either |-> FALSE] :
        w \in {"interrupt", "interruptFork"}, n \in 0..MaxFinalizers}
    \cup {[kind |-> "race", with |-> "race", finalizers |-> 0,
           delay |-> d, succeeds |-> o, either |-> x] :
            d \in [Tasks -> Delays], o \in [Tasks -> BOOLEAN], x \in BOOLEAN}

Pending == [state |-> "pending", of |-> 0, as |-> "none"]

StartFiber ==
    /\ concurrent \in Concurrents
    /\ callerPc = "start"
    /\ fiberStatus = "none"
    /\ finalizersLeft = 0
    /\ said = 0
    /\ clock = 0
    /\ taskState = [t \in Tasks |-> "none"]
    /\ raceResult = Pending

\* const fiber = yield* Effect.fork(Effect.forever(Effect.succeed("Hi!")))
Fork ==
    /\ concurrent.kind = "interruption"
    /\ callerPc = "start"
    /\ callerPc' = "forked"
    /\ fiberStatus' = "running"
    /\ UNCHANGED <<varsExplorer, varsWorkspace, varsSolved, varsLayer,
                   concurrent, finalizersLeft, said, clock, taskState,
                   raceResult>>

\* One round of Effect.forever(Effect.succeed("Hi!"))
FiberLoop ==
    /\ fiberStatus = "running"
    /\ said < MaxFinalizers
    /\ said' = said + 1
    /\ UNCHANGED <<varsExplorer, varsWorkspace, varsSolved, varsLayer,
                   concurrent, callerPc, fiberStatus, finalizersLeft, clock,
                   taskState, raceResult>>

\* Fiber.interrupt(fiber) / Fiber.interruptFork(fiber): the fiber is told
\* to stop and starts to run its finalizers.
Interrupt ==
    /\ callerPc = "forked"
    /\ callerPc' = "interrupting"
    /\ fiberStatus' = "finalizing"
    /\ finalizersLeft' = concurrent.finalizers
    /\ UNCHANGED <<varsExplorer, varsWorkspace, varsSolved, varsLayer,
                   concurrent, said, clock, taskState, raceResult>>

\* The interrupted fiber runs one finalizer.
RunFinalizer ==
    /\ fiberStatus = "finalizing"
    /\ finalizersLeft > 0
    /\ finalizersLeft' = finalizersLeft - 1
    /\ UNCHANGED <<varsExplorer, varsWorkspace, varsSolved, varsLayer,
                   concurrent, callerPc, fiberStatus, said, clock, taskState,
                   raceResult>>

\* The interrupted fiber completes, its finalizers run.
FiberExit ==
    /\ fiberStatus = "finalizing"
    /\ finalizersLeft = 0
    /\ fiberStatus' = "done"
    /\ UNCHANGED <<varsExplorer, varsWorkspace, varsSolved, varsLayer,
                   concurrent, callerPc, finalizersLeft, said, clock,
                   taskState, raceResult>>

\* A slip of the interruption, used to test the properties below.
resumesAtOnce(with, fiber) == TRUE

\* "the effect returned by Fiber.interrupt does not resume until the fiber
\* has completed"; Fiber.interruptFork does not wait.
resumes(with, fiber) == with = "interruptFork" \/ fiber = "done"

\* The caller resumes after the interruption: console.log(exit), or
\* whatever follows.
Resume ==
    /\ callerPc = "interrupting"
    /\ resumes(concurrent.with, fiberStatus)
    /\ callerPc' = "after"
    /\ UNCHANGED <<varsExplorer, varsWorkspace, varsSolved, varsLayer,
                   concurrent, fiberStatus, finalizersLeft, said, clock,
                   taskState, raceResult>>

\* Effect.race(task1, task2): both tasks start.
RaceStart ==
    /\ concurrent.kind = "race"
    /\ callerPc = "start"
    /\ callerPc' = "racing"
    /\ taskState' = [t \in Tasks |-> "running"]
    /\ UNCHANGED <<varsExplorer, varsWorkspace, varsSolved, varsLayer,
                   concurrent, fiberStatus, finalizersLeft, said, clock,
                   raceResult>>

\* A second passes; no running task is due.
Second ==
    /\ callerPc = "racing"
    /\ \A t \in Tasks : taskState[t] = "running" => concurrent.delay[t] > clock
    /\ \E t \in Tasks : taskState[t] = "running"
    /\ clock' = clock + 1
    /\ UNCHANGED <<varsExplorer, varsWorkspace, varsSolved, varsLayer,
                   concurrent, callerPc, fiberStatus, finalizersLeft, said,
                   taskState, raceResult>>

\* A slip of the race, used to test the properties below.
settlesAlways(succeeded) == TRUE

\* The race takes "the first one that successfully completes".
settles(succeeded) == succeeded

\* Task t's delay is over: it succeeds or fails (under Effect.either its
\* failure is a success with a Left). The race takes a success as its
\* result and interrupts the other task; it takes a failure when the other
\* task has failed too.
TaskCompletes(t) ==
    /\ callerPc = "racing"
    /\ taskState[t] = "running"
    /\ concurrent.delay[t] = clock
    /\ LET ok == concurrent.succeeds[t] \/ concurrent.either
           how == IF ~concurrent.either THEN
                      IF concurrent.succeeds[t] THEN "success" ELSE "failure"
                  ELSE IF concurrent.succeeds[t] THEN "right" ELSE "left"
           others == Tasks \ {t}
       IN IF settles(ok)
          THEN /\ raceResult' = [state |-> "settled", of |-> t, as |-> how]
               /\ taskState' = [u \in Tasks |->
                                   IF u = t
                                   THEN IF ok THEN "succeeded" ELSE "failed"
                                   ELSE IF taskState[u] = "running"
                                   THEN "interrupted"
                                   ELSE taskState[u]]
               /\ callerPc' = "after"
          ELSE /\ taskState' = [taskState EXCEPT ![t] = "failed"]
               /\ IF \A u \in others : taskState[u] = "failed"
                  THEN /\ raceResult' = [state |-> "settled", of |-> t, as |-> how]
                       /\ callerPc' = "after"
                  ELSE UNCHANGED <<raceResult, callerPc>>
    /\ UNCHANGED <<varsExplorer, varsWorkspace, varsSolved, varsLayer,
                   concurrent, fiberStatus, finalizersLeft, said, clock>>

\* console.log(exit) / .then(console.log): the program ends.
LogResult ==
    /\ callerPc = "after"
    /\ callerPc' = "done"
    /\ UNCHANGED <<varsExplorer, varsWorkspace, varsSolved, varsLayer,
                   concurrent, fiberStatus, finalizersLeft, said, clock,
                   taskState, raceResult>>

(***************************************************************************)
(* The specifications.                                                     *)
(***************************************************************************)
\* The page's first program, not started.
FirstRunnable ==
    runnable = [kind |-> "global", uses |-> [l \in Consumers |-> "a"], times |-> 1]

\* The Basic Concurrency page's interruption program, not started.
FirstConcurrent ==
    concurrent = [kind |-> "interruption", with |-> "interrupt", finalizers |-> 0,
                  delay |-> [t \in Tasks |-> 1],
                  succeeds |-> [t \in Tasks |-> TRUE], either |-> FALSE]

\* The pages' programs, not started.
StartPages == StartLayer /\ FirstRunnable /\ StartFiber /\ FirstConcurrent

InitExplorer == StartExplorer /\ StartWorkspace /\ StartSolved /\ StartPages

NextExplorer ==
    \/ \E t \in InputType, p \in Paths : DispatchShowInput(t, p)
    \/ DispatchHideInput

SpecExplorer == InitExplorer /\ [][NextExplorer]_vars

Init == StartExplorer /\ StartWorkspace /\ StartSolved /\ StartPages

\* The terminals of a workspace handle: their build, their setup fibers,
\* the wiring to their shells, their close.
Next ==
    \/ \E o \in {"success", "failure", "interrupted"} : PrepareExit(o)
    \/ \E e \in Envs : BuildTerminal(e)
    \/ \E e \in Envs : SetupCd(e)
    \/ \E e \in Envs : SetupAwaited(e)
    \/ \E e \in Envs : SetupWake(e)
    \/ \E e \in Envs : ShellEmit(e)
    \/ \E e \in Envs : PipeWrite(e)
    \/ \E e \in Envs : TerminalData(e)
    \/ \E e \in Envs : CloseTerminal(e)
    \/ \E d \in TickSteps : Tick(d)

Spec == Init /\ [][Next]_vars

\* terminalSize, its debounce and the terminals' resize consumers. The
\* setup fibers and the shells neither read nor write this part's state.
NextSize ==
    \/ \E e \in Envs : BuildTerminal(e)
    \/ \E e \in Envs : CloseTerminal(e)
    \/ WriteTerminalSize
    \/ DebounceFire
    \/ \E e \in Envs : Resize(e)
    \/ \E d \in TickSteps : Tick(d)

SpecSize == Init /\ [][NextSize]_vars

\* The terminals' scopes: the setup fibers and the resize consumers
\* together, without the traffic between the terminals and their shells
\* and without writes to terminalSize: each consumer has the value its
\* stream starts with to resize for.
NextScope ==
    \/ \E o \in {"success", "failure", "interrupted"} : PrepareExit(o)
    \/ \E e \in Envs : BuildTerminal(e)
    \/ \E e \in Envs : SetupCd(e)
    \/ \E e \in Envs : SetupAwaited(e)
    \/ \E e \in Envs : SetupWake(e)
    \/ \E e \in Envs : CloseTerminal(e)
    \/ \E e \in Envs : Resize(e)
    \/ \E d \in TickSteps : Tick(d)

SpecScope == Init /\ [][NextScope]_vars

\* The solved flag and its watcher.
NextSolved ==
    \/ \E v \in BOOLEAN : SetSolved(v)
    \/ WatcherTake
    \/ WatcherWrite

SpecSolved == Init /\ [][NextSolved]_vars

\* The programs of the Layer Memoization page.
InitLayer ==
    /\ StartExplorer /\ StartWorkspace /\ StartSolved
    /\ StartLayer /\ StartFiber /\ FirstConcurrent

NextLayer ==
    \/ ProvideGlobally
    \/ \E l \in Consumers : Require(l)
    \/ \E l \in Consumers : Construct(l)
    \/ \E l \in Consumers : Awaited(l)
    \/ \E l \in Consumers : BuildConsumer(l)
    \/ RunProgram
    \/ Memoize
    \/ ProvideLocally
    \/ ConstructLocally
    \/ UseLocally

SpecLayer == InitLayer /\ [][NextLayer]_vars

\* The programs of the Basic Concurrency page.
InitFiber ==
    /\ StartExplorer /\ StartWorkspace /\ StartSolved
    /\ StartLayer /\ FirstRunnable /\ StartFiber

NextFiber ==
    \/ Fork
    \/ FiberLoop
    \/ Interrupt
    \/ RunFinalizer
    \/ FiberExit
    \/ Resume
    \/ RaceStart
    \/ Second
    \/ \E t \in Tasks : TaskCompletes(t)
    \/ LogResult

SpecFiber == InitFiber /\ [][NextFiber]_vars

\* The last action dispatched, and the state it was applied to.
LastAction == dispatched[Len(dispatched)]

RECURSIVE Replay(_, _)
Replay(s, as) == IF as = <<>> THEN s ELSE Replay(reducer(s, Head(as)), Tail(as))

(***************************************************************************)
(* C1: whatever the state before, after a ShowInput{type, path} the        *)
(* creationMode is CreatingFile{path} for type "file" and                  *)
(* CreatingDirectory{path} for type "directory", with the action's path.   *)
(***************************************************************************)
C1_ShowInputSetsMode ==
    (dispatched # <<>> /\ LastAction._tag = "ShowInput") =>
        /\ LastAction.type = "file" =>
              state.creationMode = CreatingFile(LastAction.path)
        /\ LastAction.type = "directory" =>
              state.creationMode = CreatingDirectory(LastAction.path)

\* A ShowInput for a directory applied to a state that was creating a file
\* at another path.
C1_Witness ==
    /\ Len(dispatched) >= 2
    /\ LastAction = ShowInput("directory", "src/lib")
    /\ dispatched[Len(dispatched) - 1] = ShowInput("file", "src")
    /\ state.creationMode = CreatingDirectory("src/lib")

(***************************************************************************)
(* C2: whatever the state before (Idle, CreatingFile or CreatingDirectory, *)
(* any path), after a HideInput the creationMode is Idle.                  *)
(***************************************************************************)
C2_HideInputIdles ==
    (dispatched # <<>> /\ LastAction._tag = "HideInput") =>
        state.creationMode = Idle

\* A HideInput applied to a state that was creating a directory.
C2_Witness ==
    /\ Len(dispatched) >= 2
    /\ LastAction = HideInput
    /\ dispatched[Len(dispatched) - 1] = ShowInput("directory", "src")
    /\ state.creationMode = Idle

(***************************************************************************)
(* C3: the explorer starts Idle; its creationMode is always one of Idle,   *)
(* CreatingFile, CreatingDirectory; when it is not Idle its path is the    *)
(* path of the most recent ShowInput and no HideInput was dispatched after *)
(* that ShowInput (so there is one creation input at most: the single      *)
(* creationMode field).                                                    *)
(***************************************************************************)
C3_CreationModeInvariant ==
    /\ dispatched = <<>> => state.creationMode = Idle
    /\ state.creationMode \in CreationMode
    /\ DOMAIN state = {"creationMode"}
    /\ state.creationMode # Idle =>
          \E i \in 1..Len(dispatched) :
              /\ dispatched[i]._tag = "ShowInput"
              /\ \A j \in (i + 1)..Len(dispatched) :
                    dispatched[j]._tag \notin {"ShowInput", "HideInput"}
              /\ state.creationMode.path = dispatched[i].path

\* Not Idle after a HideInput was followed by a later ShowInput.
C3_Witness ==
    /\ Len(dispatched) = 3
    /\ dispatched[2] = HideInput
    /\ dispatched[3]._tag = "ShowInput"
    /\ state.creationMode = CreatingFile("src/lib")

(***************************************************************************)
(* C4: resize events are debounced. For every open terminal: (a) a burst   *)
(* of writes to terminalSize, each less than 250 ms after the one before,  *)
(* causes one resize at most (the terminal's first resize is the initial   *)
(* value of its stream); (b) the debounced value is published only when    *)
(* 250 ms have passed without a write; (c) every burst gets its resize:    *)
(* once 250 ms have passed without a write and the terminal's stream is    *)
(* drained, the terminal has resized once per burst.                       *)
(***************************************************************************)
Quiet(e) ==
    /\ status[e] = "open"
    /\ ~BurstPending
    /\ resizeQueue[e] = <<>>

C4_AtMostOnePerBurst ==
    \A e \in Envs : resized[e] + Len(resizeQueue[e]) <= 1 + burstsSeen[e]

C4_OnlyAfterQuietPeriod == lastFireGap = -1 \/ lastFireGap >= DebounceMs

C4_EveryBurstResizes ==
    \A e \in Envs : Quiet(e) => resized[e] = 1 + burstsSeen[e]

C4_ResizeDebounced ==
    /\ C4_AtMostOnePerBurst
    /\ C4_OnlyAfterQuietPeriod
    /\ C4_EveryBurstResizes

(***************************************************************************)
(* C5: once a terminal is mounted, the chunks its shell emitted are        *)
(* written to that terminal in the order of emission, none dropped,        *)
(* duplicated or written to another terminal (a chunk not yet written is   *)
(* still in the shell's output stream); and the data events the terminal   *)
(* fired since the mount are written to that shell's input, in order,      *)
(* none dropped, duplicated or written to another shell.                   *)
(***************************************************************************)
IsOut(x) == x[1] = "out"

IsData(x) == x[1] = "data"

WasMounted(r) == r.mounted

\* The data events of terminal e fired after its mount, in order.
DataSinceMount(e) ==
    LET kept == SelectSeq(dataLog[e], WasMounted)
    IN [i \in 1..Len(kept) |-> kept[i].data]

C5_StreamsWired ==
    \A e \in Envs :
        /\ mounted[e] =>
              /\ SelectSeq(termWritten[e], IsOut) \o outQueue[e]
                    = [k \in 1..emitted[e] |-> OutChunk(e, k)]
              /\ SelectSeq(shellInput[e], IsData) = DataSinceMount(e)
        /\ \A i \in 1..Len(termWritten[e]) : termWritten[e][i][2] = e
        /\ \A i \in 1..Len(shellInput[e]) : shellInput[e][i][2] = e

\* Both terminals are mounted; the server terminal received two chunks of
\* its shell, one emitted before the mount, and its shell's input received
\* two data events after the command line; the other terminal's shell
\* received a data event too.
C5_Witness ==
    /\ mounted["server"] /\ mounted["shell"]
    /\ termWritten["server"]
          = <<Loading("server"), OutChunk("server", 1), OutChunk("server", 2)>>
    /\ shellInput["server"]
          = <<CdLine("server"), CommandLine("server"),
              DataEvent("server", 1), DataEvent("server", 2)>>
    /\ Len(dataLog["server"]) = 2
    /\ DataEvent("shell", 2) = shellInput["shell"][Len(shellInput["shell"])]
    /\ ~dataLog["shell"][1].mounted

(***************************************************************************)
(* C6: for each change of the solved flag, every (file, path) pair of      *)
(* workspace.filePaths is written at its path: with the file's solution    *)
(* when the new value is true and the file has a solution, with its        *)
(* initialContent when the new value is false or the file has no solution; *)
(* nothing is written at a path outside workspace.filePaths. (The writes   *)
(* at one path follow the changes one to one; when the watcher has caught  *)
(* up, each path was written once per change.)                             *)
(***************************************************************************)
Expected(v, file) ==
    IF v /\ file.solution # Undefined THEN file.solution ELSE file.initialContent

WritesAt(p) ==
    LET At(w) == w[1] = p
        kept == SelectSeq(writeLog, At)
    IN [i \in 1..Len(kept) |-> kept[i][2]]

WatcherIdle == solvedQueue = <<>> /\ fileIndex = 0

C6_SolvedRewritesFiles ==
    /\ \A i \in 1..Len(filePaths) :
          LET file == filePaths[i][1]
              path == filePaths[i][2]
              ws == WritesAt(path)
          IN /\ Len(ws) <= Len(changes)
             /\ \A k \in 1..Len(ws) : ws[k] = Expected(changes[k], file)
             /\ WatcherIdle => Len(ws) = Len(changes)
    /\ \A k \in 1..Len(writeLog) : writeLog[k][1] \in workspacePaths

\* The flag went true, then false, then true; the watcher has caught up,
\* and the files hold the solutions where there are any.
C6_Witness ==
    /\ changes = <<TRUE, FALSE, TRUE>>
    /\ WatcherIdle
    /\ Len(writeLog) = 3 * Len(filePaths)
    /\ files["src/index.ts"] = "solution 1"
    /\ files["README.md"] = "initial 2"
    /\ files["src/empty.ts"] = ""

(***************************************************************************)
(* C7: in Layer.merge(Layer.provide(b, a), Layer.provide(c, a)) provided   *)
(* globally, layer a is allocated once: its effect runs a single time (one *)
(* "initialized" log), however the two builds interleave, and b and c are  *)
(* built with that one instance.                                           *)
(***************************************************************************)
UsesEverywhere(u) ==
    /\ runnable.kind = "global"
    /\ \A l \in Consumers : runnable.uses[l] = u

HasInstance(l) == layerPc[l] \in {"ready", "built"}

C7_SharedGlobally ==
    UsesEverywhere("a") =>
        /\ initialized <= 1
        /\ \A l \in Consumers : HasInstance(l) =>
              initialized = 1 /\ instanceOf[l] = 1
        /\ mainPc = "done" =>
              \A l, m \in Consumers :
                  instanceOf[l] = instanceOf[m] /\ instanceOf[l] # 0

\* The program has run; b and c were built with the one instance.
C7_Witness ==
    /\ UsesEverywhere("a")
    /\ mainPc = "done"
    /\ initialized = 1
    /\ instanceOf["b"] = 1 /\ instanceOf["c"] = 1

(***************************************************************************)
(* C8: with Layer.provide(b, Layer.fresh(a)) merged with                   *)
(* Layer.provide(c, Layer.fresh(a)), layer a is not shared: its effect     *)
(* runs once per fresh use, twice in all, and b and c are built with       *)
(* different instances.                                                    *)
(***************************************************************************)
C8_FreshNotShared ==
    UsesEverywhere("fresh(a)") =>
        /\ initialized = Cardinality({l \in Consumers : HasInstance(l)})
        /\ \A l, m \in Consumers :
              (HasInstance(l) /\ HasInstance(m) /\ l # m) =>
                  instanceOf[l] # instanceOf[m]
        /\ mainPc = "done" => initialized = 2

\* The program has run; a was constructed once for b and once for c.
C8_Witness ==
    /\ UsesEverywhere("fresh(a)")
    /\ mainPc = "done"
    /\ initialized = 2
    /\ instanceOf["b"] # instanceOf["c"]

(***************************************************************************)
(* C9: a layer provided locally is not memoized: every Effect.provide(A,   *)
(* a) of the program constructs layer a again, so the program that         *)
(* provides it twice in sequence constructs it twice.                      *)
(***************************************************************************)
C9_LocalNotMemoized ==
    runnable.kind = "local" =>
        /\ initialized = Len(provided)
        /\ \A i \in 1..Len(provided) : provided[i] = i
        /\ mainPc = "done" => initialized = runnable.times

\* The program with two provisions has run: two constructions.
C9_Witness ==
    /\ runnable.kind = "local"
    /\ runnable.times = 2
    /\ mainPc = "done"
    /\ initialized = 2
    /\ provided = <<1, 2>>

(***************************************************************************)
(* C10: the layer returned by Layer.memoize(a) is constructed lazily and   *)
(* once at most within its scope: nothing is constructed before the first  *)
(* provision, the first provision constructs a, and every provision,       *)
(* however many there are, gets that one instance.                         *)
(***************************************************************************)
C10_MemoizedOnce ==
    runnable.kind = "memoize" =>
        /\ initialized <= 1
        /\ provisions = 0 => initialized = 0
        /\ provided # <<>> => initialized = 1
        /\ \A i \in 1..Len(provided) : provided[i] = 1
        /\ mainPc = "done" => Len(provided) = runnable.times

\* The memoized layer was provided three times: one construction.
C10_Witness ==
    /\ runnable.kind = "memoize"
    /\ runnable.times = 3
    /\ mainPc = "done"
    /\ initialized = 1
    /\ provided = <<1, 1, 1>>


(***************************************************************************)
(* C11: the effect of Fiber.interrupt does not resume until the            *)
(* interrupted fiber has completed with all its finalizers run: no step    *)
(* that follows Fiber.interrupt(fiber) in the caller runs while the        *)
(* interrupted fiber is still running.                                     *)
(***************************************************************************)
PastInterrupt == callerPc \in {"after", "done"}

C11_InterruptBackPressure ==
    (concurrent.kind = "interruption" /\ concurrent.with = "interrupt"
        /\ PastInterrupt)
        => fiberStatus = "done" /\ finalizersLeft = 0

\* The caller has resumed after interrupting a fiber that had finalizers
\* to run.
C11_Witness ==
    /\ concurrent.kind = "interruption"
    /\ concurrent.with = "interrupt"
    /\ concurrent.finalizers = MaxFinalizers
    /\ PastInterrupt
    /\ fiberStatus = "done"

(***************************************************************************)
(* C12: Effect.race gives the result of the first task to complete         *)
(* successfully: when one task fails before the other succeeds, the race   *)
(* does not fail with that failure, it gives the later success (task1      *)
(* fails after 1 second, task2 succeeds after 2 seconds: task2).           *)
(***************************************************************************)
PlainRace == concurrent.kind = "race" /\ ~concurrent.either

Settled == raceResult.state = "settled"

C12_RaceFirstSuccess ==
    (PlainRace /\ Settled) =>
        /\ (\E t \in Tasks : concurrent.succeeds[t]) =>
               /\ raceResult.as = "success"
               /\ concurrent.succeeds[raceResult.of]
               /\ \A u \in Tasks :
                      concurrent.succeeds[u] =>
                          concurrent.delay[raceResult.of] <= concurrent.delay[u]
        /\ (\A t \in Tasks : ~concurrent.succeeds[t]) =>
               raceResult.as = "failure"

\* The page's example: task1 fails after 1 second, task2 succeeds after 2
\* seconds, and the race gives task2.
C12_Witness ==
    /\ PlainRace
    /\ concurrent.delay = [t \in Tasks |-> t]
    /\ ~concurrent.succeeds[1]
    /\ concurrent.succeeds[2]
    /\ taskState[1] = "failed"
    /\ raceResult = [state |-> "settled", of |-> 2, as |-> "success"]



(***************************************************************************)
(* C16: the explorer's state after any non-empty sequence of actions is    *)
(* the state the last action alone gives when applied to the initial       *)
(* state. HideInput is idempotent, and a ShowInput received while creating *)
(* replaces both the mode and the path.                                    *)
(***************************************************************************)
C16_LastActionDecides ==
    /\ state = Replay(initialState, dispatched)
    /\ dispatched # <<>> => state = reducer(initialState, LastAction)
    /\ reducer(reducer(state, HideInput), HideInput) = reducer(state, HideInput)
    /\ \A t \in InputType, p \in Paths :
           reducer(state, ShowInput(t, p)).creationMode =
               IF t = "file" THEN CreatingFile(p) ELSE CreatingDirectory(p)

\* A ShowInput for a file at one path, received while creating a directory
\* at another path, after an earlier HideInput.
C16_Witness ==
    /\ Len(dispatched) = 3
    /\ dispatched[1] = HideInput
    /\ dispatched[2] = ShowInput("directory", "src")
    /\ dispatched[3] = ShowInput("file", "src/lib")
    /\ state = [creationMode |-> CreatingFile("src/lib")]



(***************************************************************************)
(* C20: the changes of solved are handled one at a time, in order: all the *)
(* file writes of one change are done, in the order of filePaths, before   *)
(* the writes of the next change start. Once the watcher is quiescent,     *)
(* every file holds the content the last value of solved selects, never a  *)
(* mix of two values.                                                      *)
(***************************************************************************)
C20_ChangesInOrder ==
    LET n == Len(filePaths)
    IN /\ \A k \in 1..Len(writeLog) :
              LET c == ((k - 1) \div n) + 1
                  i == ((k - 1) % n) + 1
              IN /\ c <= Len(changes)
                 /\ writeLog[k] =
                        <<filePaths[i][2], Expected(changes[c], filePaths[i][1])>>
       /\ WatcherIdle =>
              \A i \in 1..n :
                  files[filePaths[i][2]] = Expected(solved, filePaths[i][1])

\* The flag went true, then false; the watcher has since written the files
\* for both changes, in order, and the files hold the
\* initial contents again.
C20_Witness ==
    /\ changes = <<TRUE, FALSE>>
    /\ solvedSets = 2
    /\ WatcherIdle
    /\ Len(writeLog) = 2 * Len(filePaths)
    /\ writeLog[1] = <<"src/index.ts", "solution 1">>
    /\ files["src/index.ts"] = "initial 1"



(***************************************************************************)
(* C13: for every terminal, mount never runs before the prepare fiber has  *)
(* terminated; until the mount no data event of the terminal is written to *)
(* the shell's input and no output of the shell is written to the          *)
(* terminal. With a command, the mount comes 3000 ms or more after prepare *)
(* terminated.                                                             *)
(***************************************************************************)
HasCommand(e) == command(e) # Undefined /\ command(e) # ""

NotWired(e) ==
    /\ pipedTo[e] = NoTerminal
    /\ onData[e] = {}
    /\ SelectSeq(shellInput[e], IsData) = <<>>
    /\ SelectSeq(termWritten[e], IsOut) = <<>>

C13_MountAfterPrepare ==
    \A e \in Envs :
        /\ prepare = "running" => ~mounted[e]
        /\ ~mounted[e] => NotWired(e)
        /\ (mounted[e] /\ HasCommand(e)) => mountedAt[e] >= SleepMs

\* Prepare has terminated and the terminal with a command is mounted, 3000
\* ms later; a data event and a chunk of the shell, both from before the
\* mount: the event is lost, the chunk was written after the mount. The
\* other terminal is open and was mounted as soon as prepare terminated.
C13_Witness ==
    /\ prepare = "success"
    /\ mounted["server"]
    /\ mountedAt["server"] = SleepMs
    /\ dataLog["server"] # <<>>
    /\ ~dataLog["server"][1].mounted
    /\ SelectSeq(shellInput["server"], IsData) = <<>>
    /\ termWritten["server"] = <<Loading("server"), OutChunk("server", 1)>>
    /\ mounted["shell"]
    /\ mountedAt["shell"] = 0



(***************************************************************************)
(* C14: workspace.prepare is run exactly once for a built handle, in a     *)
(* fiber forked while the handle is built, before any terminal exists.     *)
(* Every terminal awaits that one fiber; creating terminals never runs     *)
(* prepare again.                                                          *)
(***************************************************************************)
C14_PrepareOnce ==
    /\ prepareRuns = 1
    /\ \A e \in Envs :
           awaited[e] # "none" => awaited[e] = prepare /\ prepare # "running"

\* Two terminals were built, one of them is closed again; both awaited the
\* one prepare fiber and got its failure.
C14_Witness ==
    /\ prepareRuns = 1
    /\ status["shell"] = "closed"
    /\ status["server"] = "open"
    /\ \A e \in Envs : awaited[e] = "failure"



(***************************************************************************)
(* C17: the setup writes to the shell's input in a fixed order: first the  *)
(* cd line, before prepare is awaited; then, only with a command, the      *)
(* command line, exactly once, after prepare has terminated and after the  *)
(* mount. Without a command the setup writes nothing but the cd line.      *)
(***************************************************************************)
BySetup(x) == x[1] # "data"

SetupWrites(e) == SelectSeq(shellInput[e], BySetup)

IsPrefix(p, q) == Len(p) <= Len(q) /\ \A i \in 1..Len(p) : p[i] = q[i]

C17_SetupWriteOrder ==
    \A e \in Envs :
        /\ IsPrefix(SetupWrites(e),
                    IF HasCommand(e)
                    THEN <<CdLine(e), CommandLine(e)>>
                    ELSE <<CdLine(e)>>)
        /\ shellInput[e] # <<>> => shellInput[e][1] = CdLine(e)
        /\ (setup[e] \in {"await", "sleep"} \/ awaited[e] # "none") =>
               SetupWrites(e) # <<>>
        /\ Len(SetupWrites(e)) = 2 =>
               /\ prepare # "running"
               /\ awaited[e] # "none"
               /\ mounted[e]
        /\ (setup[e] = "done" /\ HasCommand(e)) => Len(SetupWrites(e)) = 2

\* Both setups are done: with the command, the shell's input got the cd
\* line, the command line and then a data event; without one, the cd line
\* only, though the terminal is mounted.
C17_Witness ==
    /\ setup["server"] = "done"
    /\ shellInput["server"] =
           <<CdLine("server"), CommandLine("server"), DataEvent("server", 1)>>
    /\ setup["shell"] = "done"
    /\ mounted["shell"]
    /\ shellInput["shell"] = <<CdLine("shell")>>



(***************************************************************************)
(* C18: the build of a terminal never waits for prepare: the line          *)
(* "Loading workspace..." is written and the terminal is returned while    *)
(* the cd line, the await of prepare and the mount run in a forked fiber.  *)
(* The terminal is available even if prepare never terminates.             *)
(***************************************************************************)
C18_BuildDoesNotWait ==
    \A e \in Envs :
        /\ status[e] = "none" => ENABLED BuildTerminal(e)
        /\ status[e] # "none" =>
               /\ termWritten[e] # <<>>
               /\ termWritten[e][1] = Loading(e)
        /\ (status[e] = "open" /\ prepare = "running") =>
               /\ setup[e] \in {"cd", "await"}
               /\ termWritten[e] = <<Loading(e)>>

\* Both terminals are built and show the loading line while prepare is
\* still running; their setup fibers wait for it.
C18_Witness ==
    /\ prepare = "running"
    /\ \A e \in Envs :
           /\ status[e] = "open"
           /\ setup[e] = "await"
           /\ termWritten[e] = <<Loading(e)>>



(***************************************************************************)
(* C19: a terminal is mounted once the prepare fiber has terminated,       *)
(* whether it succeeded, failed or was interrupted: the setup awaits the   *)
(* fiber's exit and never looks at it. A failed prepare neither fails the  *)
(* setup fiber nor keeps the mount or the command line from happening.     *)
(***************************************************************************)
Exits == {"success", "failure", "interrupted"}

C19_AnyExitMounts ==
    \A e \in Envs :
        /\ prepare \in Exits \cup {"running"}
        /\ (setup[e] = "await" /\ prepare \in Exits) => ENABLED SetupAwaited(e)
        /\ setup[e] \in {"none", "cd", "await", "sleep", "done", "interrupted"}
        /\ (setup[e] = "sleep" /\ sleepLeft[e] = 0) => ENABLED SetupWake(e)
        /\ setup[e] = "done" =>
               /\ awaited[e] \in Exits
               /\ mounted[e]
               /\ HasCommand(e) => Len(SetupWrites(e)) = 2

\* Prepare failed; the terminal with the command was mounted all the same
\* and its command line written, and so was the other terminal.
C19_Witness ==
    /\ prepare = "failure"
    /\ \A e \in Envs : awaited[e] = "failure" /\ mounted[e] /\ setup[e] = "done"
    /\ SetupWrites("server") = <<CdLine("server"), CommandLine("server")>>



(***************************************************************************)
(* C15: when a terminal's scope is closed, the "releasing" finalizer runs  *)
(* and the forked setup and resize fibers are interrupted: afterwards      *)
(* resize is not invoked for the terminal and the setup writes nothing     *)
(* more to its shell's input. A terminal closed before prepare terminated  *)
(* is never mounted and its command is never written.                      *)
(***************************************************************************)
Last(q) == q[Len(q)]

ClosedEarly(e) == status[e] = "closed" /\ awaited[e] = "none"

C15_CloseStep(e) ==
    (status[e] = "open" /\ status'[e] = "closed") =>
        /\ logged'[e] = Append(logged[e], "releasing")
        /\ setup'[e] \in {"done", "interrupted"}
        /\ resizeQueue'[e] = <<>>
        /\ resized'[e] = resized[e]
        /\ shellInput'[e] = shellInput[e]

C15_AfterClose(e) ==
    status[e] = "closed" =>
        /\ status'[e] = "closed"
        /\ resized'[e] = resized[e]
        /\ shellInput'[e] = shellInput[e]
        /\ mounted'[e] = mounted[e]
        /\ logged'[e] = logged[e]

C15_ScopeClose ==
    /\ [](\A e \in Envs :
              /\ status[e] = "closed" => Last(logged[e]) = "releasing"
              /\ ClosedEarly(e) =>
                     /\ ~mounted[e]
                     /\ pipedTo[e] = NoTerminal
                     /\ Len(SetupWrites(e)) <= 1)
    /\ [][\A e \in Envs : C15_CloseStep(e) /\ C15_AfterClose(e)]_vars

\* The terminal with the command was closed before its await of prepare
\* returned, after its one resize; prepare has terminated: the terminal is
\* not mounted and its shell's input has the cd line only.
C15_Witness ==
    /\ status["server"] = "closed"
    /\ ClosedEarly("server")
    /\ setup["server"] = "interrupted"
    /\ resized["server"] = 1
    /\ shellInput["server"] = <<CdLine("server")>>
    /\ prepare = "success"
    /\ ~mounted["server"]
    /\ logged["server"] = <<"building", "releasing">>



(***************************************************************************)
(* C21: building a workspace handle writes no workspace file through the   *)
(* solved watcher: the initial value false of solved is not processed, and *)
(* the first write of the watcher happens only after solved has been set   *)
(* for the first time.                                                     *)
(***************************************************************************)
InitialFiles ==
    \A i \in 1..Len(filePaths) :
        files[filePaths[i][2]] = filePaths[i][1].initialContent

WatcherStarted == fileIndex > 0 \/ writeLog # <<>>

C21_InitialValueSkipped ==
    /\ solvedSets = 0 =>
           /\ solvedQueue = <<>>
           /\ ~WatcherStarted
           /\ InitialFiles
    /\ WatcherStarted =>
           /\ solvedSets >= 1
           /\ changes # <<>>
           /\ changes[1] = TRUE
    /\ writeLog # <<>> =>
           writeLog[1] = <<filePaths[1][2], Expected(TRUE, filePaths[1][1])>>

\* solved was set twice and changed once, to true (one set was dropped as
\* unchanged); the watcher has written the files once, with the solutions.
C21_Witness ==
    /\ solvedSets = 2
    /\ changes = <<TRUE>>
    /\ WatcherIdle
    /\ Len(writeLog) = Len(filePaths)
    /\ writeLog[1] = <<"src/index.ts", "solution 1">>



(***************************************************************************)
(* C22: every write to terminalSize sets the atom to a value different     *)
(* from the value it held just before that write, the first write after    *)
(* the handle is built included: the values come from a counter that grows *)
(* by one per write, so no resize request is lost as an unchanged value.   *)
(***************************************************************************)
C22_EveryWriteChanges ==
    /\ \A i \in 1..Len(sizeWrites) : sizeWrites[i].set # sizeWrites[i].held
    /\ \A i \in 2..Len(sizeWrites) :
           sizeWrites[i].set = sizeWrites[i - 1].set + 1
    /\ Len(sizeWrites) = size


=============================================================================
